---- MODULE Spec2Model ----
(***************************************************************************)
(* Sparse-set entity-component storage: the Pool container (src/src/pool.js)*)
(* and the World built on it (the bundled World of src/unnamed/part_000,    *)
(* whose lifecycle and query code is the first World of src/src/ecs.js).    *)
(***************************************************************************)
EXTENDS Integers, Sequences, FiniteSets

VARIABLES pool, nextId, entities, recycledEntities, pools, last,
          destroyedOrder, iter, seen

\* iter is the generator that keys(), values() or entries() of the stand-alone
\* Pool returned last; seen is a history variable: what that generator has
\* yielded and what the Pool operations run since its creation have done to
\* the dense array; no operation reads it

\* destroyedOrder is a history variable: the ids destroyed and not handed out
\* again since, in the order of their destruction; no operation reads it
vars == <<pool, nextId, entities, recycledEntities, pools, last,
          destroyedOrder, iter, seen>>

poolVars == <<pool, iter, seen>>

worldVars == <<nextId, entities, recycledEntities, pools, destroyedOrder>>

(*************************** bounds of the model ***************************)

\* capacity of the stand-alone Pool
PoolCapacity == 2

\* maximumEntity of the stand-alone Pool
PoolMaxEntity == 2

\* bits per element of the unsigned typed arrays (scaled down from 8/16/32)
BitWidth == 2

\* capacity handed to the World constructor
WorldCapacity == 2

\* number of distinct component payloads
NumValues == 2

\* longest argument list handed to all(...) and any(...)
MaxTypes == 2

\* number of entity ids in the stores that all(...) is evaluated on directly
ExampleEntities == 3

(******************************* value domains *****************************)

TypeNames == {"A", "B"}

Values == 1 .. NumValues

\* a component: a plain object carrying its type tag and a payload
Components == [type : TypeNames, val : Values]

\* the null that fills an unused components slot
Null == [type |-> "null", val |-> 0]

\* the undefined that get() returns for an absent entity
Undefined == [type |-> "undefined", val |-> 0]

PoolComponents == {c \in Components : c.type = "A"}

RECURSIVE Pow2(_)
Pow2(n) == IF n = 0 THEN 1 ELSE 2 * Pow2(n - 1)

\* a store into a UintXXArray element keeps the value modulo 2^bits
ToUint(x) == x % Pow2(BitWidth)

MaxTypedValue == Pow2(BitWidth) - 1

(********************************** Pool ***********************************)

\* the constructor's validation without the test against the array width
PoolConfigOkAnyWidth(capacity, maximumEntity) ==
    /\ capacity >= 0
    /\ maximumEntity >= 0

\* the constructor's validation
PoolConfigOk(capacity, maximumEntity) ==
    /\ capacity >= 0
    /\ maximumEntity >= 0
    /\ maximumEntity <= MaxTypedValue

PoolNew(capacity, maximumEntity) ==
    [ capacity   |-> capacity,
      maxEntity  |-> maximumEntity,
      size       |-> 0,
      sparse     |-> [i \in 0 .. maximumEntity |-> 0],
      entities   |-> [i \in 0 .. capacity - 1 |-> 0],
      components |-> [i \in 0 .. capacity - 1 |-> Null] ]

\* #assert: TRUE when the value passes, FALSE when it throws TypeError
PoolAssert(p, value) == value >= 0 /\ value <= p.maxEntity

PoolHas(p, entity) ==
    IF entity > p.maxEntity THEN FALSE
    ELSE IF entity \notin DOMAIN p.sparse THEN FALSE
    ELSE LET i == p.sparse[entity]
         IN  i < p.size /\ p.entities[i] = entity

PoolGet(p, entity) ==
    IF entity < 0 \/ entity > p.maxEntity THEN Undefined
    ELSE LET i == p.sparse[entity]
         IN  IF i < p.size /\ p.entities[i] = entity
             THEN p.components[i]
             ELSE Undefined

\* result of a Pool method: the Pool afterwards, how the call ended, its value
PoolResult(p, status, ret) == [pool |-> p, status |-> status, ret |-> ret]

\* PoolAdd that answers false to an invalid entity instead of raising
PoolAddSilentInvalid(p, entity, component) ==
    IF ~PoolAssert(p, entity) THEN PoolResult(p, "ok", FALSE)
    ELSE IF p.size >= p.capacity THEN PoolResult(p, "ok", FALSE)
    ELSE LET i == p.sparse[entity]
         IN  IF i < p.size /\ p.entities[i] = entity
             THEN PoolResult(
                    [p EXCEPT !.components[i] = component], "ok", TRUE)
             ELSE PoolResult(
                    [p EXCEPT !.entities[p.size]   = ToUint(entity),
                              !.components[p.size] = component,
                              !.sparse[entity]     = ToUint(p.size),
                              !.size               = p.size + 1],
                    "ok", TRUE)

\* PoolAdd without the capacity test
PoolAddNoCapacity(p, entity, component) ==
    IF ~PoolAssert(p, entity) THEN PoolResult(p, "TypeError", FALSE)
    ELSE LET i == p.sparse[entity]
         IN  IF i < p.size /\ p.entities[i] = entity
             THEN PoolResult(
                    [p EXCEPT !.components[i] = component], "ok", TRUE)
             ELSE PoolResult(
                    [p EXCEPT !.entities   = [k \in DOMAIN p.entities \cup {p.size}
                                                |-> IF k = p.size THEN ToUint(entity)
                                                    ELSE p.entities[k]],
                              !.components = [k \in DOMAIN p.components \cup {p.size}
                                                |-> IF k = p.size THEN component
                                                    ELSE p.components[k]],
                              !.sparse[entity] = ToUint(p.size),
                              !.size           = p.size + 1],
                    "ok", TRUE)

\* PoolAdd that appends without recording the dense slot in sparse
PoolAddNoSparse(p, entity, component) ==
    IF ~PoolAssert(p, entity) THEN PoolResult(p, "TypeError", FALSE)
    ELSE IF p.size >= p.capacity THEN PoolResult(p, "ok", FALSE)
    ELSE LET i == p.sparse[entity]
         IN  IF i < p.size /\ p.entities[i] = entity
             THEN PoolResult(
                    [p EXCEPT !.components[i] = component], "ok", TRUE)
             ELSE PoolResult(
                    [p EXCEPT !.entities[p.size]   = ToUint(entity),
                              !.components[p.size] = component,
                              !.size               = p.size + 1],
                    "ok", TRUE)

PoolAdd(p, entity, component) ==
    IF ~PoolAssert(p, entity) THEN PoolResult(p, "TypeError", FALSE)
    ELSE IF p.size >= p.capacity THEN PoolResult(p, "ok", FALSE)
    ELSE LET i == p.sparse[entity]
         IN  IF i < p.size /\ p.entities[i] = entity
             THEN PoolResult(
                    [p EXCEPT !.components[i] = component], "ok", TRUE)
             ELSE PoolResult(
                    [p EXCEPT !.entities[p.size]   = ToUint(entity),
                              !.components[p.size] = component,
                              !.sparse[entity]     = ToUint(p.size),
                              !.size               = p.size + 1],
                    "ok", TRUE)

\* PoolDelete without the has() test: an absent entity costs the last entry
PoolDeleteNoHasTest(p, entity) ==
    IF ~PoolAssert(p, entity) THEN PoolResult(p, "TypeError", FALSE)
    ELSE IF p.size = 0 THEN PoolResult(p, "ok", FALSE)
    ELSE LET index == IF PoolHas(p, entity) THEN p.sparse[entity]
                                           ELSE p.size - 1
             lastEntity    == p.entities[p.size - 1]
             lastComponent == p.components[p.size - 1]
             moved == [p EXCEPT !.entities[index]   = lastEntity,
                                !.components[index] = lastComponent,
                                !.sparse[lastEntity] = ToUint(index),
                                !.size              = p.size - 1]
         IN  PoolResult(
               [moved EXCEPT !.components[moved.size] = Null], "ok", TRUE)

\* PoolDelete that moves the last entry without updating its sparse slot
PoolDeleteNoSparse(p, entity) ==
    IF ~PoolAssert(p, entity) THEN PoolResult(p, "TypeError", FALSE)
    ELSE IF ~PoolHas(p, entity) THEN PoolResult(p, "ok", FALSE)
    ELSE LET index         == p.sparse[entity]
             lastEntity    == p.entities[p.size - 1]
             lastComponent == p.components[p.size - 1]
             moved == [p EXCEPT !.entities[index]   = lastEntity,
                                !.components[index] = lastComponent,
                                !.size              = p.size - 1]
         IN  PoolResult(
               [moved EXCEPT !.components[moved.size] = Null], "ok", TRUE)

\* PoolDelete that moves the last entity but not its component
PoolDeleteNoComponent(p, entity) ==
    IF ~PoolAssert(p, entity) THEN PoolResult(p, "TypeError", FALSE)
    ELSE IF ~PoolHas(p, entity) THEN PoolResult(p, "ok", FALSE)
    ELSE LET index         == p.sparse[entity]
             lastEntity    == p.entities[p.size - 1]
             moved == [p EXCEPT !.entities[index]   = lastEntity,
                                !.sparse[lastEntity] = ToUint(index),
                                !.size              = p.size - 1]
         IN  PoolResult(
               [moved EXCEPT !.components[moved.size] = Null], "ok", TRUE)

\* PoolDelete that fills the vacated slot but leaves size as it was
PoolDeleteKeepsSize(p, entity) ==
    IF ~PoolAssert(p, entity) THEN PoolResult(p, "TypeError", FALSE)
    ELSE IF ~PoolHas(p, entity) THEN PoolResult(p, "ok", FALSE)
    ELSE LET index         == p.sparse[entity]
             lastEntity    == p.entities[p.size - 1]
             lastComponent == p.components[p.size - 1]
             moved == [p EXCEPT !.entities[index]   = lastEntity,
                                !.components[index] = lastComponent,
                                !.sparse[lastEntity] = ToUint(index)]
         IN  PoolResult(moved, "ok", TRUE)

PoolDelete(p, entity) ==
    IF ~PoolAssert(p, entity) THEN PoolResult(p, "TypeError", FALSE)
    ELSE IF ~PoolHas(p, entity) THEN PoolResult(p, "ok", FALSE)
    ELSE LET index         == p.sparse[entity]
             lastEntity    == p.entities[p.size - 1]
             lastComponent == p.components[p.size - 1]
             moved == [p EXCEPT !.entities[index]   = lastEntity,
                                !.components[index] = lastComponent,
                                !.sparse[lastEntity] = ToUint(index),
                                !.size              = p.size - 1]
         IN  PoolResult(
               [moved EXCEPT !.components[moved.size] = Null], "ok", TRUE)

\* has() that validates its argument the way add and delete do
PoolHasCallAsserting(p, entity) ==
    IF ~PoolAssert(p, entity) THEN PoolResult(p, "TypeError", FALSE)
    ELSE PoolResult(p, "ok", PoolHas(p, entity))

\* a call of has(entity): it ends normally whatever the argument
PoolHasCall(p, entity) == PoolResult(p, "ok", PoolHas(p, entity))

\* a call of get(entity): it ends normally whatever the argument
PoolGetCall(p, entity) == PoolResult(p, "ok", PoolGet(p, entity))

PoolClear(p) ==
    [p EXCEPT !.components =
                 [i \in DOMAIN p.components |->
                     IF i < p.size THEN Null ELSE p.components[i]],
              !.size = 0]

\* [...pool.keys()]: the dense entities, in dense order
PoolKeys(p) == [k \in 1 .. p.size |-> p.entities[k - 1]]

PoolIsEmpty(p) == p.size = 0

(**************************** last operation *******************************)

NoTypes == << >>

Call(op, entity, component, type, types, status, ret) ==
    [ op |-> op, entity |-> entity, component |-> component, type |-> type,
      types |-> types, status |-> status, ret |-> ret ]

NoCall == Call("none", -1, Null, "", NoTypes, "ok", FALSE)

\* the Map of component stores: a function from the registered type names
EmptyMap == [t \in {} |-> PoolNew(0, 0)]

MapHas(m, key) == key \in DOMAIN m

MapSet(m, key, value) ==
    [t \in DOMAIN m \cup {key} |-> IF t = key THEN value ELSE m[t]]

MapDelete(m, key) == [t \in DOMAIN m \ {key} |-> m[t]]

(************************** iteration over a Pool **************************)

IterKinds == {"keys", "values", "entries"}

\* no generator has been created
NoIter == [state |-> "none", kind |-> "none", i |-> 0]

\* a generator as keys()/values()/entries() returns it: nothing has run yet
IterNew(kind) == [state |-> "running", kind |-> kind, i |-> 0]

\* what one turn of the loop yields from dense slot i
IterItem(p, kind, i) ==
    [ entity    |-> IF kind = "values" THEN -1 ELSE p.entities[i],
      component |-> IF kind = "keys" THEN Undefined ELSE p.components[i] ]

\* the entities in the dense slots below size
Dense(p) == {p.entities[k] : k \in 0 .. p.size - 1}

\* the lowest dense slot below size that holds e
DensePos(p, e) ==
    CHOOSE k \in 0 .. p.size - 1 :
        /\ p.entities[k] = e
        /\ \A j \in 0 .. k - 1 : p.entities[j] # e

NoSeen ==
    [ visited |-> << >>, present |-> {}, mutated |-> FALSE,
      added |-> FALSE, moves |-> {}, movedBack |-> {} ]

\* seen for a generator created over p
SeenNew(p) == [NoSeen EXCEPT !.present = Dense(p)]

\* the entities that a Pool operation taking p to q moved to another slot
Moves(p, q) ==
    { [entity |-> e, from |-> DensePos(p, e), to |-> DensePos(q, e)] :
        e \in {x \in Dense(p) \cap Dense(q) : DensePos(p, x) # DensePos(q, x)} }

\* a generator that has finished is dropped at the next Pool operation
Release(it) == IF it.state = "running" THEN it ELSE NoIter

\* seen after the Pool operation op took p to q while generator it exists;
\* the slots below it.i have been visited
Track(s, it, p, q, op) ==
    IF it.state # "running" THEN NoSeen
    ELSE [ s EXCEPT
             !.present = {e \in @ : e \in Dense(q)},
             !.mutated = @ \/ q # p,
             !.added   = @ \/ (op = "add" /\ q # p),
             !.moves   = Moves(p, q),
             !.movedBack =
                 @ \cup {m.entity : m \in {x \in Moves(p, q) :
                                             x.from >= it.i /\ x.to < it.i}} ]

(***************************** Pool operations *****************************)

\* the entity arguments: every valid id of the Pool, one below, one above
PoolEntityArgs == -1 .. pool.maxEntity + 1

PoolInit ==
    /\ PoolConfigOk(PoolCapacity, PoolMaxEntity)
    /\ pool = PoolNew(PoolCapacity, PoolMaxEntity)

WorldInit ==
    /\ PoolConfigOk(WorldCapacity, WorldCapacity - 1)
    /\ nextId = 0
    /\ entities = {}
    /\ recycledEntities = << >>
    /\ pools = EmptyMap
    /\ destroyedOrder = << >>

Init ==
    /\ PoolInit
    /\ WorldInit
    /\ last = NoCall
    /\ iter = NoIter
    /\ seen = NoSeen

PoolAddOp ==
    \E e \in PoolEntityArgs, c \in PoolComponents :
        LET r == PoolAdd(pool, e, c)
        IN  /\ pool' = r.pool
            /\ last' = Call("add", e, c, "", NoTypes, r.status, r.ret)
            /\ seen' = Track(seen, iter, pool, r.pool, "add")
            /\ iter' = Release(iter)
            /\ UNCHANGED worldVars

PoolDeleteOp ==
    \E e \in PoolEntityArgs :
        LET r == PoolDelete(pool, e)
        IN  /\ pool' = r.pool
            /\ last' = Call("delete", e, Null, "", NoTypes, r.status, r.ret)
            /\ seen' = Track(seen, iter, pool, r.pool, "delete")
            /\ iter' = Release(iter)
            /\ UNCHANGED worldVars

PoolClearOp ==
    /\ pool' = PoolClear(pool)
    /\ last' = Call("clear", -1, Null, "", NoTypes, "ok", FALSE)
    /\ seen' = Track(seen, iter, pool, PoolClear(pool), "clear")
    /\ iter' = Release(iter)
    /\ UNCHANGED worldVars

PoolHasOp ==
    \E e \in PoolEntityArgs :
        LET r == PoolHasCall(pool, e)
        IN  /\ pool' = r.pool
            /\ last' = Call("has", e, Null, "", NoTypes, r.status, r.ret)
            /\ seen' = Track(seen, iter, pool, r.pool, "has")
            /\ iter' = Release(iter)
            /\ UNCHANGED worldVars

PoolGetOp ==
    \E e \in PoolEntityArgs :
        LET r == PoolGetCall(pool, e)
        IN  /\ pool' = r.pool
            /\ last' = Call("get", e, Null, "", NoTypes, r.status, r.ret)
            /\ seen' = Track(seen, iter, pool, r.pool, "get")
            /\ iter' = Release(iter)
            /\ UNCHANGED worldVars

PoolNext ==
    \/ PoolAddOp
    \/ PoolDeleteOp
    \/ PoolClearOp
    \/ PoolHasOp
    \/ PoolGetOp

PoolSpec == Init /\ [][PoolNext]_vars

\* the constructor arguments tried: capacities up to one above 2^w, highest
\* ids from -1 to 2^w
ConfigCapacities == -1 .. Pow2(BitWidth) + 1

ConfigMaxEntities == -1 .. Pow2(BitWidth)

\* every Pool whose construction succeeds
ConfigInit ==
    /\ \E capacity \in ConfigCapacities, maximumEntity \in ConfigMaxEntities :
          /\ PoolConfigOk(capacity, maximumEntity)
          /\ pool = PoolNew(capacity, maximumEntity)
    /\ WorldInit
    /\ last = NoCall
    /\ iter = NoIter
    /\ seen = NoSeen

\* the Pool operations that write into the typed arrays
ConfigNext ==
    \/ PoolAddOp
    \/ PoolDeleteOp
    \/ PoolClearOp

ConfigSpec == ConfigInit /\ [][ConfigNext]_vars

\* a call of keys(), values() or entries(): the generator is created and no
\* line of its body has run; the model follows one generator at a time
IterStart ==
    /\ iter.state # "running"
    /\ \E kind \in IterKinds :
          /\ iter' = IterNew(kind)
          /\ last' = Call(kind, -1, Null, "", NoTypes, "ok", FALSE)
    /\ seen' = SeenNew(pool)
    /\ UNCHANGED <<pool, worldVars>>

\* IterNext whose loop runs to the capacity instead of the current size
IterNextToCapacity ==
    /\ iter.state = "running"
    /\ IF iter.i < pool.capacity
       THEN LET item == IterItem(pool, iter.kind, iter.i)
            IN  /\ iter' = [iter EXCEPT !.i = @ + 1]
                /\ seen' = [seen EXCEPT
                              !.visited = Append(@, pool.entities[iter.i]),
                              !.moves   = {}]
                /\ last' = Call("next", item.entity, item.component,
                                iter.kind, NoTypes, "ok", FALSE)
       ELSE /\ iter' = [iter EXCEPT !.state = "done"]
            /\ seen' = [seen EXCEPT !.moves = {}]
            /\ last' = Call("next", -1, Undefined, iter.kind, NoTypes,
                            "ok", TRUE)
    /\ UNCHANGED <<pool, worldVars>>

\* next() of the generator: the loop test i < size against the size of this
\* moment, then the yield of slot i; the i++ that runs when the generator is
\* resumed is taken together with the yield, nothing reads i in between
IterNext ==
    /\ iter.state = "running"
    /\ IF iter.i < pool.size
       THEN LET item == IterItem(pool, iter.kind, iter.i)
            IN  /\ iter' = [iter EXCEPT !.i = @ + 1]
                /\ seen' = [seen EXCEPT
                              !.visited = Append(@, pool.entities[iter.i]),
                              !.moves   = {}]
                /\ last' = Call("next", item.entity, item.component,
                                iter.kind, NoTypes, "ok", FALSE)
       ELSE /\ iter' = [iter EXCEPT !.state = "done"]
            /\ seen' = [seen EXCEPT !.moves = {}]
            /\ last' = Call("next", -1, Undefined, iter.kind, NoTypes,
                            "ok", TRUE)
    /\ UNCHANGED <<pool, worldVars>>

\* the Pool operations that write, interleaved with the generator's turns
IterSpecNext ==
    \/ PoolAddOp
    \/ PoolDeleteOp
    \/ PoolClearOp
    \/ IterStart
    \/ IterNext

IterSpec == Init /\ [][IterSpecNext]_vars

(****************************** Pool properties ****************************)

PoolEntities == 0 .. PoolMaxEntity

\* C1: in every reachable Pool state, sparse[entities[i]] = i for every dense
\* index i below size, so the dense entities are pairwise distinct.
C1_SparseDenseConsistent ==
    /\ \A i \in 0 .. pool.size - 1 : pool.sparse[pool.entities[i]] = i
    /\ \A i, j \in 0 .. pool.size - 1 :
          i # j => pool.entities[i] # pool.entities[j]

\* a successful delete has moved the last entry into the slot of the deleted
\* entity: the moved entity is at that slot and still in the vacated one
C1_Witness ==
    /\ last.op = "delete" /\ last.status = "ok" /\ last.ret = TRUE
    /\ pool.sparse[last.entity] < pool.size
    /\ pool.entities[pool.sparse[last.entity]] = pool.entities[pool.size]
    /\ pool.entities[pool.size] # last.entity

\* C2: after an add(e, v) that returns true, has(e) holds and get(e) = v, and
\* membership and value of every other entity are as before the call.
C2_AddThenHasGet ==
    [][ (last'.op = "add" /\ last'.status = "ok" /\ last'.ret = TRUE) =>
          /\ PoolHas(pool', last'.entity)
          /\ PoolGet(pool', last'.entity) = last'.component
          /\ \A o \in PoolEntities \ {last'.entity} :
                /\ PoolHas(pool', o) = PoolHas(pool, o)
                /\ PoolGet(pool', o) = PoolGet(pool, o) ]_vars

\* an add returned true while another entity is held
C2_Witness ==
    /\ last.op = "add" /\ last.status = "ok" /\ last.ret = TRUE
    /\ PoolHas(pool, last.entity)
    /\ \E o \in PoolEntities \ {last.entity} : PoolHas(pool, o)

\* C3: delete(e) of a present entity returns true, lowers size by one, makes
\* has(e) false and get(e) absent, keeps every other present entity with its
\* value; only the former last dense entry moves, into the slot e had.
C3_DeletePresent ==
    [][ (last'.op = "delete" /\ PoolHas(pool, last'.entity)) =>
          LET e == last'.entity
              idx == pool.sparse[e]
          IN  /\ last'.status = "ok" /\ last'.ret = TRUE
              /\ pool'.size = pool.size - 1
              /\ ~PoolHas(pool', e)
              /\ PoolGet(pool', e) = Undefined
              /\ \A o \in PoolEntities \ {e} :
                    /\ PoolHas(pool', o) = PoolHas(pool, o)
                    /\ PoolGet(pool', o) = PoolGet(pool, o)
              /\ \A i \in 0 .. pool'.size - 1 :
                    pool'.entities[i] = IF i = idx
                                        THEN pool.entities[pool.size - 1]
                                        ELSE pool.entities[i] ]_vars

\* a delete removed an entity that was not last, so the last one moved
C3_Witness ==
    /\ last.op = "delete" /\ last.status = "ok" /\ last.ret = TRUE
    /\ ~PoolHas(pool, last.entity)
    /\ pool.size >= 1
    /\ pool.sparse[last.entity] < pool.size

\* C4: add(e, v) of an entity already present overwrites its value, returns
\* true and leaves size unchanged, also when size equals capacity.
C4_AddPresentOverwrites ==
    [][ (last'.op = "add" /\ PoolHas(pool, last'.entity)) =>
          /\ last'.status = "ok" /\ last'.ret = TRUE
          /\ pool'.size = pool.size
          /\ PoolGet(pool', last'.entity) = last'.component ]_vars

\* C5: on a Pool holding capacity entities, add of an absent entity returns
\* false without raising, size stays at capacity and has(e) stays false; size
\* never exceeds capacity.
C5_AddToFullFails ==
    /\ [](pool.size <= pool.capacity)
    /\ [][ ( /\ last'.op = "add"
             /\ PoolAssert(pool, last'.entity)
             /\ pool.size = pool.capacity
             /\ ~PoolHas(pool, last'.entity) ) =>
            /\ last'.status = "ok" /\ last'.ret = FALSE
            /\ pool'.size = pool.capacity
            /\ ~PoolHas(pool', last'.entity) ]_vars

\* an add of a valid absent entity was refused by a full Pool
C5_Witness ==
    /\ last.op = "add" /\ last.status = "ok" /\ last.ret = FALSE
    /\ PoolAssert(pool, last.entity)
    /\ pool.size = pool.capacity
    /\ ~PoolHas(pool, last.entity)

\* C14: delete(e) of a valid entity that is absent returns false and leaves
\* the whole Pool as it was; the same delete repeated gives the same result.
C14_DeleteAbsent ==
    [][ ( /\ last'.op = "delete"
          /\ PoolAssert(pool, last'.entity)
          /\ ~PoolHas(pool, last'.entity) ) =>
        /\ last'.status = "ok" /\ last'.ret = FALSE
        /\ pool' = pool
        /\ PoolDelete(pool', last'.entity) = PoolResult(pool', "ok", FALSE)
      ]_vars

\* a delete of a valid absent entity was refused by a Pool that holds others
C14_Witness ==
    /\ last.op = "delete" /\ last.status = "ok" /\ last.ret = FALSE
    /\ PoolAssert(pool, last.entity)
    /\ pool.size >= 1

\* C15: add and delete called with an entity outside [0, maxEntity] raise
\* the invalid-entity error and leave sparse, entities, components and size
\* unchanged.
C15_InvalidEntityRaises ==
    [][ ( /\ last'.op \in {"add", "delete"}
          /\ ~PoolAssert(pool, last'.entity) ) =>
        /\ last'.status = "TypeError"
        /\ pool' = pool ]_vars

\* an add with an entity above maxEntity was refused by a Pool with a free slot
C15_Witness ==
    /\ last.op = "add" /\ last.status = "TypeError"
    /\ last.entity > pool.maxEntity
    /\ pool.size >= 1 /\ pool.size < pool.capacity

\* C16 as stated: has and get called with an entity outside [0, maxEntity]
\* fail with the invalid-entity error, as add and delete do.
C16_HasGetRaise ==
    (last.op \in {"has", "get"} /\ ~PoolAssert(pool, last.entity)) =>
        last.status = "TypeError"

\* C16 as amended: has and get called with an entity outside [0, maxEntity]
\* do not raise: has returns false, get returns the absent value, and the
\* Pool is unchanged.
C16_HasGetTolerateInvalid ==
    [][ ( /\ last'.op \in {"has", "get"}
          /\ ~PoolAssert(pool, last'.entity) ) =>
        /\ last'.status = "ok"
        /\ last'.op = "has" => last'.ret = FALSE
        /\ last'.op = "get" => last'.ret = Undefined
        /\ pool' = pool ]_vars

\* has was asked about an entity above maxEntity on a Pool that holds maxEntity
C16_Witness ==
    /\ last.op = "has" /\ last.status = "ok" /\ last.ret = FALSE
    /\ last.entity > pool.maxEntity
    /\ PoolHas(pool, pool.maxEntity)

(********************************** World **********************************)

\* World constructor: #maxEntity = capacity - 1
WorldMaxEntity == WorldCapacity - 1

\* #validateComponent of a plain object: its type property names the store
ComponentTypeName(component) == component.type

\* the registered Pools left as they are
DeleteFromNone(m, entity) == m

\* every registered Pool after pool.delete(entity) was called on each
DeleteFromAll(m, entity) ==
    [t \in DOMAIN m |-> PoolDelete(m[t], entity).pool]

\* Array.prototype.sort((a, b) => a.size - b.size): stable, ascending by size
\* InsertBySize that puts x in front of the Pools of its own size
RECURSIVE InsertBeforeEqual(_, _)
InsertBeforeEqual(x, sorted) ==
    IF sorted = << >> THEN << x >>
    ELSE IF x.size <= Head(sorted).size THEN << x >> \o sorted
    ELSE << Head(sorted) >> \o InsertBeforeEqual(x, Tail(sorted))

RECURSIVE InsertBySize(_, _)
InsertBySize(x, sorted) ==
    IF sorted = << >> THEN << x >>
    ELSE IF x.size < Head(sorted).size THEN << x >> \o sorted
    ELSE << Head(sorted) >> \o InsertBySize(x, Tail(sorted))

RECURSIVE SortBySize(_)
SortBySize(ps) ==
    IF ps = << >> THEN << >>
    ELSE InsertBySize(ps[Len(ps)], SortBySize(SubSeq(ps, 1, Len(ps) - 1)))

\* every candidate kept, whatever the remaining Pools hold
FilterKeepAll(seq, remaining) == seq

\* the candidates of seq that every remaining Pool has, in the order of seq
RECURSIVE FilterHeldByAll(_, _)
FilterHeldByAll(seq, remaining) ==
    IF seq = << >> THEN << >>
    ELSE LET rest == FilterHeldByAll(Tail(seq), remaining)
         IN  IF \A k \in 1 .. Len(remaining) : PoolHas(remaining[k], Head(seq))
             THEN << Head(seq) >> \o rest
             ELSE rest

QueryResult(status, ret) == [status |-> status, ret |-> ret]

\* World.all(...types) on the Map m of Pools
WorldAll(m, types) ==
    IF DOMAIN m = {} \/ Len(types) = 0 THEN QueryResult("ok", << >>)
    ELSE IF Len(types) = 1
    THEN IF MapHas(m, types[1])
         THEN QueryResult("ok", PoolKeys(m[types[1]]))
         ELSE QueryResult("TypeError", << >>)
    ELSE IF \E k \in 1 .. Len(types) :
              ~MapHas(m, types[k]) \/ PoolIsEmpty(m[types[k]])
    THEN QueryResult("ok", << >>)
    ELSE LET sorted == SortBySize([k \in 1 .. Len(types) |-> m[types[k]]])
         IN  QueryResult("ok",
                 FilterHeldByAll(PoolKeys(sorted[1]), Tail(sorted)))

\* appends every element of seq, held already or not
AppendAll(acc, seq) == acc \o seq

\* Set.prototype.add of each element of seq, keeping insertion order
RECURSIVE SetAddAll(_, _)
SetAddAll(acc, seq) ==
    IF seq = << >> THEN acc
    ELSE SetAddAll(
           IF \E k \in 1 .. Len(acc) : acc[k] = Head(seq)
           THEN acc ELSE Append(acc, Head(seq)),
           Tail(seq))

RECURSIVE AnyFrom(_, _, _)
AnyFrom(m, types, acc) ==
    IF types = << >> THEN acc
    ELSE IF ~MapHas(m, Head(types)) \/ PoolIsEmpty(m[Head(types)])
    THEN AnyFrom(m, Tail(types), acc)
    ELSE AnyFrom(m, Tail(types), SetAddAll(acc, PoolKeys(m[Head(types)])))

\* World.any(...types) on the Map m of Pools
WorldAny(m, types) ==
    IF Len(types) = 0 THEN QueryResult("ok", << >>)
    ELSE QueryResult("ok", AnyFrom(m, types, << >>))

(***************************** World operations ****************************)

\* entity arguments: every id of the World and one beyond its capacity
WorldEntityArgs == 0 .. WorldCapacity

\* the sequence seq without the occurrences of x
Without(seq, x) == SelectSeq(seq, LAMBDA y : y # x)

TypeLists == UNION {[1 .. n -> TypeNames] : n \in 0 .. MaxTypes}

\* Spawn that takes the oldest recycled id (shift) instead of the newest (pop)
SpawnOldestFirst ==
    /\ IF Len(recycledEntities) > 0
       THEN LET entity == recycledEntities[1]
            IN  /\ recycledEntities' = Tail(recycledEntities)
                /\ entities' = entities \cup {entity}
                /\ nextId' = nextId
                /\ last' = Call("spawn", -1, Null, "", NoTypes, "ok", entity)
                /\ destroyedOrder' = Without(destroyedOrder, entity)
       ELSE IF nextId >= WorldCapacity
       THEN /\ UNCHANGED <<recycledEntities, entities, nextId, destroyedOrder>>
            /\ last' = Call("spawn", -1, Null, "", NoTypes, "Error", -1)
       ELSE /\ nextId' = nextId + 1
            /\ entities' = entities \cup {nextId}
            /\ UNCHANGED recycledEntities
            /\ last' = Call("spawn", -1, Null, "", NoTypes, "ok", nextId)
            /\ destroyedOrder' = Without(destroyedOrder, nextId)
    /\ UNCHANGED <<poolVars, pools>>

\* Spawn that hands out nextId without testing it against the capacity
SpawnNoCapacityTest ==
    /\ IF Len(recycledEntities) > 0
       THEN LET entity == recycledEntities[Len(recycledEntities)]
            IN  /\ recycledEntities' =
                     SubSeq(recycledEntities, 1, Len(recycledEntities) - 1)
                /\ entities' = entities \cup {entity}
                /\ nextId' = nextId
                /\ last' = Call("spawn", -1, Null, "", NoTypes, "ok", entity)
                /\ destroyedOrder' = Without(destroyedOrder, entity)
       ELSE /\ nextId' = nextId + 1
            /\ entities' = entities \cup {nextId}
            /\ UNCHANGED recycledEntities
            /\ last' = Call("spawn", -1, Null, "", NoTypes, "ok", nextId)
            /\ destroyedOrder' = Without(destroyedOrder, nextId)
    /\ UNCHANGED <<poolVars, pools>>

Spawn ==
    /\ IF Len(recycledEntities) > 0
       THEN LET entity == recycledEntities[Len(recycledEntities)]
            IN  /\ recycledEntities' =
                     SubSeq(recycledEntities, 1, Len(recycledEntities) - 1)
                /\ entities' = entities \cup {entity}
                /\ nextId' = nextId
                /\ last' = Call("spawn", -1, Null, "", NoTypes, "ok", entity)
                /\ destroyedOrder' = Without(destroyedOrder, entity)
       ELSE IF nextId >= WorldCapacity
       THEN /\ UNCHANGED <<recycledEntities, entities, nextId, destroyedOrder>>
            /\ last' = Call("spawn", -1, Null, "", NoTypes, "Error", -1)
       ELSE /\ nextId' = nextId + 1
            /\ entities' = entities \cup {nextId}
            /\ UNCHANGED recycledEntities
            /\ last' = Call("spawn", -1, Null, "", NoTypes, "ok", nextId)
            /\ destroyedOrder' = Without(destroyedOrder, nextId)
    /\ UNCHANGED <<poolVars, pools>>

\* Destroy that recycles the id but leaves it in the live set
DestroyKeepsLive ==
    \E entity \in WorldEntityArgs :
        /\ IF entity \notin entities
           THEN /\ UNCHANGED worldVars
                /\ last' = Call("destroy", entity, Null, "", NoTypes, "ok", FALSE)
           ELSE /\ pools' = DeleteFromAll(pools, entity)
                /\ UNCHANGED entities
                /\ recycledEntities' = Append(recycledEntities, entity)
                /\ UNCHANGED nextId
                /\ last' = Call("destroy", entity, Null, "", NoTypes, "ok", TRUE)
                /\ destroyedOrder' = Append(destroyedOrder, entity)
        /\ UNCHANGED poolVars

Destroy ==
    \E entity \in WorldEntityArgs :
        /\ IF entity \notin entities
           THEN /\ UNCHANGED worldVars
                /\ last' = Call("destroy", entity, Null, "", NoTypes, "ok", FALSE)
           ELSE /\ pools' = DeleteFromAll(pools, entity)
                /\ entities' = entities \ {entity}
                /\ recycledEntities' = Append(recycledEntities, entity)
                /\ UNCHANGED nextId
                /\ last' = Call("destroy", entity, Null, "", NoTypes, "ok", TRUE)
                /\ destroyedOrder' = Append(destroyedOrder, entity)
        /\ UNCHANGED poolVars

\* RegisterComponent that replaces a store that is already registered
RegisterComponentOverwrites ==
    \E type \in TypeNames :
        /\ pools' = MapSet(pools, type, PoolNew(WorldCapacity, WorldMaxEntity))
        /\ last' = Call("registerComponent", -1, Null, type, NoTypes, "ok",
                        ~MapHas(pools, type))
        /\ UNCHANGED <<poolVars, nextId, entities, recycledEntities, destroyedOrder>>

RegisterComponent ==
    \E type \in TypeNames :
        /\ IF MapHas(pools, type)
           THEN /\ UNCHANGED pools
                /\ last' = Call("registerComponent", -1, Null, type, NoTypes,
                                "ok", FALSE)
           ELSE /\ pools' = MapSet(pools, type,
                                   PoolNew(WorldCapacity, WorldMaxEntity))
                /\ last' = Call("registerComponent", -1, Null, type, NoTypes,
                                "ok", TRUE)
        /\ UNCHANGED <<poolVars, nextId, entities, recycledEntities, destroyedOrder>>

\* DeregisterComponent that empties the store instead of dropping it
DeregisterComponentClears ==
    \E type \in TypeNames :
        /\ IF ~MapHas(pools, type)
           THEN /\ UNCHANGED pools
                /\ last' = Call("deregisterComponent", -1, Null, type, NoTypes,
                                "ok", FALSE)
           ELSE /\ pools' = MapSet(pools, type, PoolClear(pools[type]))
                /\ last' = Call("deregisterComponent", -1, Null, type, NoTypes,
                                "ok", TRUE)
        /\ UNCHANGED <<poolVars, nextId, entities, recycledEntities, destroyedOrder>>

DeregisterComponent ==
    \E type \in TypeNames :
        /\ IF ~MapHas(pools, type)
           THEN /\ UNCHANGED pools
                /\ last' = Call("deregisterComponent", -1, Null, type, NoTypes,
                                "ok", FALSE)
           ELSE /\ pools' = MapDelete(pools, type)
                /\ last' = Call("deregisterComponent", -1, Null, type, NoTypes,
                                "ok", TRUE)
        /\ UNCHANGED <<poolVars, nextId, entities, recycledEntities, destroyedOrder>>

\* AddComponent without the test that the entity is live
AddComponentNoLiveTest ==
    \E entity \in WorldEntityArgs, component \in Components :
        /\ LET typeName == ComponentTypeName(component)
               registered ==
                   IF MapHas(pools, typeName) THEN pools
                   ELSE MapSet(pools, typeName,
                               PoolNew(WorldCapacity, WorldMaxEntity))
               r == PoolAdd(registered[typeName], entity, component)
           IN  /\ pools' = MapSet(registered, typeName, r.pool)
               /\ last' = Call("addComponent", entity, component, "",
                               NoTypes, r.status, r.ret)
        /\ UNCHANGED <<poolVars, nextId, entities, recycledEntities, destroyedOrder>>

AddComponent ==
    \E entity \in WorldEntityArgs, component \in Components :
        /\ IF entity \notin entities
           THEN /\ UNCHANGED pools
                /\ last' = Call("addComponent", entity, component, "", NoTypes,
                                "ok", FALSE)
           ELSE LET typeName == ComponentTypeName(component)
                    registered ==
                        IF MapHas(pools, typeName) THEN pools
                        ELSE MapSet(pools, typeName,
                                    PoolNew(WorldCapacity, WorldMaxEntity))
                    r == PoolAdd(registered[typeName], entity, component)
                IN  /\ pools' = MapSet(registered, typeName, r.pool)
                    /\ last' = Call("addComponent", entity, component, "",
                                    NoTypes, r.status, r.ret)
        /\ UNCHANGED <<poolVars, nextId, entities, recycledEntities, destroyedOrder>>

RemoveComponent ==
    \E entity \in WorldEntityArgs, type \in TypeNames :
        /\ IF entity \notin entities \/ ~MapHas(pools, type)
           THEN /\ UNCHANGED pools
                /\ last' = Call("removeComponent", entity, Null, type, NoTypes,
                                "ok", FALSE)
           ELSE LET r == PoolDelete(pools[type], entity)
                IN  /\ pools' = MapSet(pools, type, r.pool)
                    /\ last' = Call("removeComponent", entity, Null, type,
                                    NoTypes, r.status, r.ret)
        /\ UNCHANGED <<poolVars, nextId, entities, recycledEntities, destroyedOrder>>

\* World.getComponent(entity, type)
WorldGetComponent(m, entity, type) ==
    IF MapHas(m, type) THEN PoolGet(m[type], entity) ELSE Undefined

\* World.hasComponent(entity, type)
WorldHasComponent(m, entity, type) ==
    IF MapHas(m, type) THEN PoolHas(m[type], entity) ELSE FALSE

GetComponent ==
    \E entity \in WorldEntityArgs, type \in TypeNames :
        /\ last' = Call("getComponent", entity, Null, type, NoTypes, "ok",
                        WorldGetComponent(pools, entity, type))
        /\ UNCHANGED <<poolVars, worldVars>>

HasComponent ==
    \E entity \in WorldEntityArgs, type \in TypeNames :
        /\ last' = Call("hasComponent", entity, Null, type, NoTypes, "ok",
                        WorldHasComponent(pools, entity, type))
        /\ UNCHANGED <<poolVars, worldVars>>

\* m with a store registered for every name of types that has none
RECURSIVE RegisterEach(_, _)
RegisterEach(m, types) ==
    IF types = << >> THEN m
    ELSE RegisterEach(
           IF MapHas(m, Head(types)) THEN m
           ELSE MapSet(m, Head(types), PoolNew(WorldCapacity, WorldMaxEntity)),
           Tail(types))

\* All that registers a store for every named type that has none
AllRegistersMissing ==
    \E types \in TypeLists :
        LET r == WorldAll(RegisterEach(pools, types), types)
        IN  /\ last' = Call("all", -1, Null, "", types, r.status, r.ret)
            /\ pools' = RegisterEach(pools, types)
            /\ UNCHANGED <<poolVars, nextId, entities, recycledEntities,
                           destroyedOrder>>

All ==
    \E types \in TypeLists :
        LET r == WorldAll(pools, types)
        IN  /\ last' = Call("all", -1, Null, "", types, r.status, r.ret)
            /\ UNCHANGED <<poolVars, worldVars>>

Any ==
    \E types \in TypeLists :
        LET r == WorldAny(pools, types)
        IN  /\ last' = Call("any", -1, Null, "", types, r.status, r.ret)
            /\ UNCHANGED <<poolVars, worldVars>>

(**************************** snapshot and restore *************************)

\* the pairs the state getter collects from one Pool: every entity keys()
\* yields, with what get(entity) returns for it
PoolData(p) ==
    [k \in 1 .. p.size |->
        [entity |-> p.entities[k - 1], component |-> PoolGet(p, p.entities[k - 1])]]

\* the object the state getter returns; the Set and the Map are kept as the
\* model keeps them, their insertion order plays no part in what follows
WorldState(n, live, recycled, m) ==
    [ nextId           |-> n,
      entities         |-> live,
      recycledEntities |-> recycled,
      pools            |-> [t \in DOMAIN m |-> PoolData(m[t])],
      capacity         |-> WorldCapacity,
      maxEntity        |-> WorldMaxEntity ]

\* number of characters of the decimal text of an integer
RECURSIVE JsonNumberLen(_)
JsonNumberLen(n) ==
    IF n < 0 THEN 1 + JsonNumberLen(0 - n)
    ELSE IF n < 10 THEN 1
    ELSE 1 + JsonNumberLen(n \div 10)

\* characters between the brackets of an array whose elements take the
\* lengths in lens: the elements and the commas between them
RECURSIVE JsonJoinLen(_)
JsonJoinLen(lens) ==
    IF lens = << >> THEN 0
    ELSE IF Len(lens) = 1 THEN lens[1]
    ELSE lens[1] + 1 + JsonJoinLen(Tail(lens))

JsonArrayLen(lens) == 2 + JsonJoinLen(lens)

\* a set written as an array, in whatever order
RECURSIVE SetToSeq(_)
SetToSeq(S) ==
    IF S = {} THEN << >>
    ELSE LET x == CHOOSE y \in S : TRUE
         IN  <<x>> \o SetToSeq(S \ {x})

\* {"type":"A","val":1}: the type names of the model are one letter long;
\* undefined in an array is written null
JsonComponentLen(c) ==
    IF c = Undefined \/ c = Null THEN 4
    ELSE 8 + 3 + 7 + JsonNumberLen(c.val) + 1

\* [entity,component]
JsonPairLen(pair) ==
    JsonArrayLen(<<JsonNumberLen(pair.entity), JsonComponentLen(pair.component)>>)

\* ["A",[[entity,component],...]]
JsonPoolLen(poolData) ==
    JsonArrayLen(<<3, JsonArrayLen([k \in 1 .. Len(poolData) |->
                                       JsonPairLen(poolData[k])])>>)

\* length of JSON.stringify(state), which is the number of bytes that
\* TextEncoder.encode produces for this text of ASCII characters
JsonLen(state) ==
    LET types == SetToSeq(DOMAIN state.pools)
        live  == SetToSeq(state.entities)
    IN  10 + JsonNumberLen(state.nextId)
        + 12 + JsonArrayLen([k \in 1 .. Len(live) |-> JsonNumberLen(live[k])])
        + 20 + JsonArrayLen([k \in 1 .. Len(state.recycledEntities) |->
                               JsonNumberLen(state.recycledEntities[k])])
        + 9  + JsonArrayLen([k \in 1 .. Len(types) |->
                               JsonPoolLen(state.pools[types[k]])])
        + 12 + JsonNumberLen(state.capacity)
        + 13 + JsonNumberLen(state.maxEntity)
        + 1

\* new Uint16Array(arrayBuffer) accepts a buffer of an even number of bytes
\* and throws RangeError for any other
Uint16ViewOk(byteLength) == byteLength % 2 = 0

\* JSON.parse(JSON.stringify(c)) of a stored component
JsonRoundTrip(c) == IF c = Undefined THEN Null ELSE c

\* pool.add(entity, component) for every pair of poolData, in its order
RECURSIVE RestorePool(_, _)
RestorePool(p, poolData) ==
    IF poolData = << >> THEN p
    ELSE RestorePool(
           PoolAdd(p, Head(poolData).entity,
                   JsonRoundTrip(Head(poolData).component)).pool,
           Tail(poolData))

\* the Map of the World that deserialize builds from the parsed state
RestorePools(state) ==
    [t \in DOMAIN state.pools |->
        RestorePool(PoolNew(state.capacity, state.capacity - 1), state.pools[t])]

\* world = await World.deserialize(world.serialize()): on success the
\* rebuilt World takes the place of the one it was taken from
Deserialize ==
    LET state == WorldState(nextId, entities, recycledEntities, pools)
    IN  /\ IF Uint16ViewOk(JsonLen(state))
           THEN /\ pools' = RestorePools(state)
                /\ last' = Call("deserialize", -1, Null, "", NoTypes, "ok", TRUE)
           ELSE /\ UNCHANGED pools
                /\ last' = Call("deserialize", -1, Null, "", NoTypes,
                                "RangeError", FALSE)
        /\ UNCHANGED <<poolVars, nextId, entities, recycledEntities, destroyedOrder>>

Next ==
    \/ Spawn
    \/ Destroy
    \/ RegisterComponent
    \/ DeregisterComponent
    \/ AddComponent
    \/ RemoveComponent
    \/ GetComponent
    \/ HasComponent
    \/ All
    \/ Any
    \/ Deserialize

Spec == Init /\ [][Next]_vars

(***************************** World properties ****************************)

WorldEntities == 0 .. WorldMaxEntity

\* the elements of a sequence
Range(seq) == {seq[k] : k \in 1 .. Len(seq)}

NoDuplicates(seq) ==
    \A i, j \in 1 .. Len(seq) : i # j => seq[i] # seq[j]

\* entity e holds a component of type t
Holds(e, t) == MapHas(pools, t) /\ PoolHas(pools[t], e)

\* the Pool p after add(e, {type, val: 1}) of every e of seq, in order
RECURSIVE PoolWith(_, _, _)
PoolWith(p, type, seq) ==
    IF seq = << >> THEN p
    ELSE PoolWith(PoolAdd(p, Head(seq), [type |-> type, val |-> 1]).pool,
                  type, Tail(seq))

\* the stores of the example: A holds {1,2,3} and B holds {2,3,4}, every id
\* lowered by one so that the highest fits the model's typed arrays
ExamplePools ==
    [t \in {"A", "B"} |->
        PoolWith(PoolNew(4, 3), t,
                 IF t = "A" THEN << 0, 1, 2 >> ELSE << 1, 2, 3 >>)]

\* C6: all(T1, ..., Tn) with n >= 2 returns exactly the entities that hold
\* every named type, each once; a missing or empty named store gives the
\* empty result; on the example stores all(A, B) is the two shared entities.
C6_AllIsIntersection ==
    (last.op = "all" /\ Len(last.types) >= 2) =>
        /\ last.status = "ok"
        /\ Range(last.ret) =
             {e \in WorldEntities :
                 \A k \in 1 .. Len(last.types) : Holds(e, last.types[k])}
        /\ NoDuplicates(last.ret)
        /\ (\E k \in 1 .. Len(last.types) :
               \/ ~MapHas(pools, last.types[k])
               \/ pools[last.types[k]].size = 0)
             => last.ret = << >>
        /\ Range(WorldAll(ExamplePools, << "A", "B" >>).ret) = {1, 2}

\* all("A", "B") answered with one entity while each store also holds others
C6_Witness ==
    /\ last.op = "all" /\ last.types = << "A", "B" >>
    /\ Len(last.ret) = 1
    /\ MapHas(pools, "A") /\ MapHas(pools, "B")
    /\ pools["A"].size + pools["B"].size >= 3

\* position of the first encounter of entity e when the named stores are
\* scanned in argument order, each in dense order: <<argument, dense index>>
FirstEncounter(e, types) ==
    LET k == CHOOSE n \in 1 .. Len(types) :
                 /\ Holds(e, types[n])
                 /\ \A b \in 1 .. n - 1 : ~Holds(e, types[b])
    IN  << k, pools[types[k]].sparse[e] >>

Before(a, b) == a[1] < b[1] \/ (a[1] = b[1] /\ a[2] < b[2])

\* C7: any(T1, ..., Tn) returns exactly the entities that hold at least one
\* named type, each once, in order of first encounter (stores in argument
\* order, each in dense order); no types give the empty result.
C7_AnyIsOrderedUnion ==
    last.op = "any" =>
        /\ last.status = "ok"
        /\ Range(last.ret) =
             {e \in WorldEntities :
                 \E k \in 1 .. Len(last.types) : Holds(e, last.types[k])}
        /\ NoDuplicates(last.ret)
        /\ \A i, j \in 1 .. Len(last.ret) :
             i < j => Before(FirstEncounter(last.ret[i], last.types),
                             FirstEncounter(last.ret[j], last.types))
        /\ Len(last.types) = 0 => last.ret = << >>
        /\ WorldAny(ExamplePools, << "A", "B" >>).ret = << 0, 1, 2, 3 >>

\* any("A", "B") where both stores hold an entity in common and the result
\* has two entities
C7_Witness ==
    /\ last.op = "any" /\ last.types = << "A", "B" >>
    /\ Len(last.ret) = 2
    /\ \E e \in WorldEntities : Holds(e, "A") /\ Holds(e, "B")
    /\ pools["B"].size = 2

\* C8: all(T) returns the entities of T's store in dense order, and the empty
\* result without raising when T is not registered, other types being
\* registered or not.
C8_AllOfOneType ==
    (last.op = "all" /\ Len(last.types) = 1) =>
        /\ last.status = "ok"
        /\ last.ret = IF MapHas(pools, last.types[1])
                      THEN PoolKeys(pools[last.types[1]])
                      ELSE << >>

\* C9: every entity stored in a component store is live; an id handed out by
\* spawn carries no component.
C9_NoOrphanedComponents ==
    /\ \A t \in DOMAIN pools :
         \A i \in 0 .. pools[t].size - 1 : pools[t].entities[i] \in entities
    /\ (last.op = "spawn" /\ last.status = "ok") =>
         \A t \in TypeNames : ~Holds(last.ret, t)

\* a destroy succeeded on an entity whose id is still in the vacated dense
\* slot of a store that keeps another entity
C9_Witness ==
    /\ last.op = "destroy" /\ last.ret = TRUE
    /\ last.entity >= 1
    /\ \E t \in DOMAIN pools :
         /\ pools[t].size = 1
         /\ pools[t].entities[1] = last.entity
         /\ pools[t].entities[0] # last.entity

\* C10: addComponent(e, data) on a live entity that already carries data's
\* type overwrites the component and returns true, so getComponent returns
\* the new data, also when every id is live and carries that type.
C10_AddComponentOverwrites ==
    [][ ( /\ last'.op = "addComponent"
          /\ last'.entity \in entities
          /\ Holds(last'.entity, ComponentTypeName(last'.component)) ) =>
        /\ last'.status = "ok" /\ last'.ret = TRUE
        /\ WorldGetComponent(pools', last'.entity,
                             ComponentTypeName(last'.component))
             = last'.component ]_vars

\* C11: addComponent(e, data) on a live entity that does not carry data's
\* type returns true (the store is registered on first use and is never full
\* for such an entity), after which hasComponent is true and getComponent
\* returns data; a removeComponent(e, T) that follows returns true, after
\* which hasComponent is false and getComponent is absent.
C11_AddThenRemoveComponent ==
    [][ /\ ( /\ last'.op = "addComponent"
             /\ last'.entity \in entities
             /\ ~Holds(last'.entity, ComponentTypeName(last'.component)) ) =>
            LET T == ComponentTypeName(last'.component)
            IN  /\ last'.status = "ok" /\ last'.ret = TRUE
                /\ WorldHasComponent(pools', last'.entity, T)
                /\ WorldGetComponent(pools', last'.entity, T) = last'.component
        /\ ( /\ last.op = "addComponent" /\ last.ret = TRUE
             /\ last'.op = "removeComponent"
             /\ last'.entity = last.entity
             /\ last'.type = ComponentTypeName(last.component) ) =>
            /\ last'.status = "ok" /\ last'.ret = TRUE
            /\ ~WorldHasComponent(pools', last'.entity, last'.type)
            /\ WorldGetComponent(pools', last'.entity, last'.type) = Undefined
      ]_vars

\* a component was removed from a live entity that was added second to a
\* store: its id is still in the vacated dense slot behind another entity
C11_Witness ==
    /\ last.op = "removeComponent" /\ last.ret = TRUE
    /\ last.entity \in entities
    /\ ~Holds(last.entity, last.type)
    /\ MapHas(pools, last.type)
    /\ pools[last.type].size = 1
    /\ pools[last.type].entities[1] = last.entity
    /\ pools[last.type].entities[0] # last.entity

\* C12: spawn() returns the most recently destroyed id that has not been
\* reused whenever there is one, leaving the next-id counter alone; otherwise
\* (ids being left) it returns the next-id counter and increments it.
C12_SpawnReusesLastDestroyed ==
    [][ last'.op = "spawn" =>
          IF destroyedOrder # << >>
          THEN /\ last'.status = "ok"
               /\ last'.ret = destroyedOrder[Len(destroyedOrder)]
               /\ nextId' = nextId
          ELSE nextId < WorldCapacity =>
                 /\ last'.status = "ok"
                 /\ last'.ret = nextId
                 /\ nextId' = nextId + 1 ]_vars

\* spawn reused an id while an id destroyed earlier is still waiting
C12_Witness ==
    /\ last.op = "spawn" /\ last.status = "ok"
    /\ last.ret \in entities
    /\ Len(destroyedOrder) >= 1
    /\ last.ret < nextId

\* C13: the live set and the recycle stack are disjoint, the stack holds no
\* id twice, together they hold exactly the ids below nextId, and nextId is
\* at most the capacity; spawn never returns an id that is live at the call
\* and every live id is below the capacity.
C13_IdsUniqueWhileLive ==
    /\ [] ( /\ entities \cap Range(recycledEntities) = {}
            /\ NoDuplicates(recycledEntities)
            /\ entities \cup Range(recycledEntities) = 0 .. nextId - 1
            /\ nextId <= WorldCapacity
            /\ entities \subseteq 0 .. WorldCapacity - 1 )
    /\ [][ (last'.op = "spawn" /\ last'.status = "ok") =>
             last'.ret \notin entities ]_vars

\* every id was handed out, one is recycled, and spawn just reused another
C13_Witness ==
    /\ last.op = "spawn" /\ last.status = "ok"
    /\ nextId = WorldCapacity
    /\ recycledEntities # << >>
    /\ last.ret \in entities
    /\ last.ret # nextId - 1

\* C17: all(...) and any(...) leave the live set, the recycle stack, the
\* next-id counter, the set of registered stores and every store's contents
\* and dense order unchanged, whatever the argument list and the result.
C17_QueriesArePure ==
    [][ last'.op \in {"all", "any"} =>
          /\ entities' = entities
          /\ recycledEntities' = recycledEntities
          /\ nextId' = nextId
          /\ DOMAIN pools' = DOMAIN pools
          /\ \A t \in DOMAIN pools : pools'[t] = pools[t] ]_vars

\* all(A, B) returned an entity from two stores of different sizes, the
\* larger one named first
C17_Witness ==
    /\ last.op = "all" /\ last.types = << "A", "B" >>
    /\ last.status = "ok" /\ Len(last.ret) = 1
    /\ pools["A"].size > pools["B"].size

\* C18: addComponent and removeComponent on an entity that is not live return
\* false without raising and change nothing: no store is registered and no
\* store's contents change.
C18_NotLiveIsRefused ==
    [][ ( /\ last'.op \in {"addComponent", "removeComponent"}
          /\ last'.entity \notin entities ) =>
        /\ last'.status = "ok" /\ last'.ret = FALSE
        /\ DOMAIN pools' = DOMAIN pools
        /\ \A t \in DOMAIN pools : pools'[t] = pools[t]
        /\ entities' = entities
        /\ recycledEntities' = recycledEntities
        /\ nextId' = nextId ]_vars

\* addComponent was refused for a destroyed id whose type has no store
C18_Witness ==
    /\ last.op = "addComponent" /\ last.status = "ok" /\ last.ret = FALSE
    /\ last.entity \in Range(recycledEntities)
    /\ ~MapHas(pools, ComponentTypeName(last.component))

\* C19: registerComponent(T) of a registered type returns false and leaves
\* the store with its pairs unchanged; of an unregistered type it returns
\* true and creates an empty store with the World's capacity.
C19_RegisterComponent ==
    [][ last'.op = "registerComponent" =>
          LET T == last'.type
          IN  /\ last'.status = "ok"
              /\ \A t \in TypeNames \ {T} :
                    /\ MapHas(pools', t) = MapHas(pools, t)
                    /\ MapHas(pools, t) => pools'[t] = pools[t]
              /\ IF MapHas(pools, T)
                 THEN /\ last'.ret = FALSE
                      /\ MapHas(pools', T)
                      /\ pools'[T] = pools[T]
                 ELSE /\ last'.ret = TRUE
                      /\ MapHas(pools', T)
                      /\ pools'[T].size = 0
                      /\ pools'[T].capacity = WorldCapacity
                      /\ \A e \in WorldEntityArgs : ~PoolHas(pools'[T], e)
      ]_vars

\* registerComponent was refused for a type whose store holds a component
C19_Witness ==
    /\ last.op = "registerComponent" /\ last.ret = FALSE
    /\ MapHas(pools, last.type)
    /\ pools[last.type].size >= 1

\* C20: deregisterComponent(T) returns false and changes nothing when T is
\* not registered; otherwise it returns true and drops the store, so that
\* hasComponent(e, T) is false for every e and a registration of T that comes
\* later starts from an empty store; the other stores are unchanged.
C20_DeregisterComponent ==
    [][ /\ last'.op = "deregisterComponent" =>
          LET T == last'.type
          IN  /\ last'.status = "ok"
              /\ \A t \in TypeNames \ {T} :
                    /\ MapHas(pools', t) = MapHas(pools, t)
                    /\ MapHas(pools, t) => pools'[t] = pools[t]
              /\ entities' = entities
              /\ recycledEntities' = recycledEntities
              /\ nextId' = nextId
              /\ IF ~MapHas(pools, T)
                 THEN /\ last'.ret = FALSE
                      /\ ~MapHas(pools', T)
                 ELSE /\ last'.ret = TRUE
                      /\ ~MapHas(pools', T)
                      /\ \A e \in WorldEntityArgs :
                            /\ ~WorldHasComponent(pools', e, T)
                            /\ WorldGetComponent(pools', e, T) = Undefined
        /\ (last'.op = "registerComponent" /\ ~MapHas(pools, last'.type)) =>
              \A e \in WorldEntityArgs :
                 ~WorldHasComponent(pools', e, last'.type)
      ]_vars

\* a store was dropped while the other type's store holds a component
C20_Witness ==
    /\ last.op = "deregisterComponent" /\ last.ret = TRUE
    /\ ~MapHas(pools, last.type)
    /\ \E t \in DOMAIN pools : pools[t].size >= 1

\* C21: with an empty recycle stack and the next-id counter at the World
\* capacity, spawn() raises an error, returns no entity and leaves the live
\* set, the recycle stack, the counter and all stores unchanged; the number of
\* live entities never exceeds the World capacity.
C21_SpawnWhenFullRaises ==
    /\ [] (Cardinality(entities) <= WorldCapacity)
    /\ [][ ( /\ last'.op = "spawn"
             /\ recycledEntities = << >>
             /\ nextId >= WorldCapacity ) =>
           /\ last'.status = "Error"
           /\ last'.ret = -1
           /\ entities' = entities
           /\ recycledEntities' = recycledEntities
           /\ nextId' = nextId
           /\ pools' = pools ]_vars

\* spawn raised in a World whose ids are all live and one of which holds a
\* component
C21_Witness ==
    /\ last.op = "spawn" /\ last.status = "Error"
    /\ Cardinality(entities) = WorldCapacity
    /\ recycledEntities = << >>
    /\ \E t \in DOMAIN pools : pools[t].size >= 1

(*************************** iteration properties **************************)

\* C22: a delete interleaved with an iteration in progress can move an entity
\* from a slot not yet visited into a slot already visited, and the iteration
\* then never yields it.  With deletes and clears as the only interleaved
\* writes, an entity present during the whole iteration is missing from a
\* finished iteration exactly when a delete moved it that way.
C22_DeleteSkipsUnvisited ==
    (iter.state = "done" /\ ~seen.added) =>
        \A e \in seen.present :
            (e \notin Range(seen.visited)) <=> (e \in seen.movedBack)

\* an iteration has finished without yielding an entity that was in the Pool
\* from its start to its end
C22_Witness ==
    /\ iter.state = "done" /\ ~seen.added
    /\ \E e \in seen.present :
          /\ PoolHas(pool, e)
          /\ e \in seen.movedBack
          /\ e \notin Range(seen.visited)

\* C23 as stated: a delete that moves an entity out of a slot already visited
\* puts it into a slot not yet visited
C23_DeleteMovesVisitedToUnvisited ==
    ( /\ iter.state = "running" /\ last.op = "delete"
      /\ \E m \in seen.moves : m.from < iter.i ) =>
        \E m \in seen.moves : m.from < iter.i /\ m.to >= iter.i

\* C23: a delete interleaved with an iteration in progress never moves an
\* entity from a slot already visited into a slot not yet visited, and an
\* iteration whose interleaved writes are deletes and clears yields no entity
\* twice.
C23_DeleteNeverRevisits ==
    /\ (iter.state = "running" /\ last.op = "delete") =>
          \A m \in seen.moves : m.from < iter.i => m.to < iter.i
    /\ (iter.state # "none" /\ ~seen.added) => NoDuplicates(seen.visited)

\* a delete has moved an entity that the iteration had yielded, after every
\* slot had been visited
C23_Witness ==
    /\ iter.state = "running" /\ last.op = "delete" /\ ~seen.added
    /\ Len(seen.visited) >= 2
    /\ \E m \in seen.moves : m.from < iter.i /\ m.to < iter.i

(************************ snapshot and restore properties ******************)

\* C24: a World rebuilt from the snapshot of a World answers all(...) and
\* any(...) as the original does, for every list of types and for every
\* reachable original.
C24_RestoreKeepsQueries ==
    [][ last'.op = "deserialize" =>
          /\ last'.status = "ok"
          /\ \A types \in TypeLists :
                /\ WorldAll(pools', types) = WorldAll(pools, types)
                /\ WorldAny(pools', types) = WorldAny(pools, types) ]_vars

\* whenever the rebuilt World exists, it answers all(...) and any(...) as the
\* original does
RestoredAnswersAlike ==
    [][ (last'.op = "deserialize" /\ last'.status = "ok") =>
          \A types \in TypeLists :
             /\ WorldAll(pools', types) = WorldAll(pools, types)
             /\ WorldAny(pools', types) = WorldAny(pools, types) ]_vars

\* a World holding components in two stores has been rebuilt
RestoredWitness ==
    /\ last.op = "deserialize" /\ last.status = "ok"
    /\ \A t \in TypeNames : MapHas(pools, t) /\ pools[t].size >= 1

(***************************** order of all(...) ***************************)

\* the first-named type among those whose store is smallest
SmallestNamed(m, types) ==
    types[CHOOSE k \in 1 .. Len(types) :
            /\ \A j \in 1 .. Len(types) : m[types[j]].size >= m[types[k]].size
            /\ \A j \in 1 .. k - 1 : m[types[j]].size > m[types[k]].size]

\* the entities every named store has, in the dense order of store t
MatchesInOrderOf(m, types, t) ==
    SelectSeq(PoolKeys(m[t]),
              LAMBDA e : \A k \in 1 .. Len(types) : PoolHas(m[types[k]], e))

\* every way to fill a store with ExampleEntities ids: the dense orders
StoreOrders ==
    {seq \in UNION {[1 .. n -> 0 .. ExampleEntities - 1] :
                       n \in 1 .. ExampleEntities} : NoDuplicates(seq)}

\* stores A and B filled in every pair of dense orders
OrderedStores ==
    {[t \in {"A", "B"} |->
        PoolWith(PoolNew(ExampleEntities, ExampleEntities - 1), t,
                 IF t = "A" THEN a ELSE b)] : a \in StoreOrders, b \in StoreOrders}

\* C25: for two or more named types whose stores are all non-empty, all(...)
\* returns the matching entities in the dense order, at the call, of the
\* smallest named store, the first-named one among equally small stores.
C25_AllFollowsSmallestStore ==
    /\ ( /\ last.op = "all" /\ Len(last.types) >= 2
         /\ \A k \in 1 .. Len(last.types) :
               MapHas(pools, last.types[k]) /\ pools[last.types[k]].size >= 1 ) =>
          /\ last.status = "ok"
          /\ last.ret = MatchesInOrderOf(pools, last.types,
                                         SmallestNamed(pools, last.types))
    /\ \A m \in OrderedStores, types \in {<< "A", "B" >>, << "B", "A" >>} :
          WorldAll(m, types).ret =
              MatchesInOrderOf(m, types, SmallestNamed(m, types))

\* all(B, A) over two stores of equal size that hold the same two entities
\* in opposite dense orders answered in the order of B
C25_Witness ==
    /\ last.op = "all" /\ last.types = << "B", "A" >> /\ last.status = "ok"
    /\ Len(last.ret) = 2
    /\ MapHas(pools, "A") /\ MapHas(pools, "B")
    /\ last.ret = PoolKeys(pools["B"])
    /\ last.ret # PoolKeys(pools["A"])

(************************* undisturbed iteration ***************************)

\* C26: a keys() iteration that no Pool write interleaves yields exactly size
\* entities, pairwise distinct, in dense order; has(e) is true exactly for the
\* entities it yields; entries() yields each of them paired with the value
\* that get(e) returns.
C26_UndisturbedIteration ==
    /\ ( /\ iter.state = "done" /\ ~seen.mutated
         /\ iter.kind \in {"keys", "entries"} ) =>
          /\ Len(seen.visited) = pool.size
          /\ NoDuplicates(seen.visited)
          /\ \A k \in 1 .. pool.size : seen.visited[k] = pool.entities[k - 1]
          /\ \A e \in PoolEntityArgs :
                PoolHas(pool, e) <=> e \in Range(seen.visited)
    /\ ( /\ last.op = "next" /\ last.ret = FALSE /\ ~seen.mutated
         /\ iter.kind \in {"keys", "entries"} ) =>
          /\ last.entity = seen.visited[Len(seen.visited)]
          /\ PoolHas(pool, last.entity)
          /\ iter.kind = "entries" =>
                last.component = PoolGet(pool, last.entity)

\* an undisturbed entries() iteration has finished over a full Pool whose
\* dense order is not the order of the ids
C26_Witness ==
    /\ iter.state = "done" /\ iter.kind = "entries" /\ ~seen.mutated
    /\ pool.size = PoolCapacity
    /\ Len(seen.visited) = PoolCapacity
    /\ seen.visited[1] > seen.visited[2]

(***************************** array element width *************************)

\* C27: in a Pool whose construction succeeded, every dense index written
\* into sparse and every entity written into entities is at most maxEntity, so
\* that no stored value is cut down modulo 2^w, also when the capacity is
\* above 2^w.
C27_NoStoredValueTruncated ==
    /\ [] ( /\ pool.maxEntity <= MaxTypedValue
            /\ pool.size <= pool.maxEntity + 1
            /\ \A k \in DOMAIN pool.entities : pool.entities[k] <= pool.maxEntity
            /\ \A e \in DOMAIN pool.sparse : pool.sparse[e] <= pool.maxEntity )
    /\ [][ /\ (last'.op = "add" /\ pool'.size = pool.size + 1) =>
                /\ pool.size <= pool.maxEntity
                /\ pool'.entities[pool.size] = last'.entity
                /\ pool'.sparse[last'.entity] = pool.size
           /\ (last'.op = "delete" /\ pool'.size = pool.size - 1) =>
                LET index      == pool.sparse[last'.entity]
                    lastEntity == pool.entities[pool.size - 1]
                IN  /\ pool'.entities[index] = lastEntity
                    /\ lastEntity # last'.entity =>
                          pool'.sparse[lastEntity] = index ]_vars

\* a Pool of a capacity above 2^w holds every id its arrays can store, and the
\* add that filled it wrote the highest storable value into sparse
C27_Witness ==
    /\ pool.capacity > Pow2(BitWidth)
    /\ pool.maxEntity = MaxTypedValue
    /\ pool.size = Pow2(BitWidth)
    /\ last.op = "add" /\ last.status = "ok" /\ last.ret = TRUE
    /\ pool.sparse[last.entity] = MaxTypedValue

====
